---- MODULE Spec2Model ----
(***************************************************************************)
(* The sale approval workflow of the ticket portal: the sales and          *)
(* ticket_tiers tables, the decrement_ticket_qty stored procedure, the     *)
(* useApproveSale / useRejectSale / useUpdateTicketTier mutations and the  *)
(* fire-webhook edge function.  Every await of the TypeScript code is one  *)
(* round trip to the datastore (or to the webhook endpoint) and is one     *)
(* atomic step here; invocations interleave between steps.                 *)
(***************************************************************************)
EXTENDS Integers, Sequences, FiniteSets, TLC

Null == "null"

\* ---------------------------------------------------------------- bounds
\* Seeded quantity of every tier (the migration seeds 100 / 100).
InitialQty == 2
\* Largest quantity of one line item.
MaxQty == 1
\* Most line items of sale S1 (sale S2 carries at most one).
MaxItems == 2

\* Two concurrent invocations of the mutations (two admin sessions, or one
\* session and a retry).
Calls == {1, 2}
Tiers == {"T1", "T2"}
SaleIds == {"S1", "S2"}
\* A sale id that names no row of the sales table.
NoSale == "S0"
\* admin: holds the admin role.  partner: the student / partner owning the
\* sales (the non-admin actor the row-level policies let furthest).
Roles == {"admin", "partner"}
Reasons == {"", "duplicate payment"}
\* What one POST to the webhook endpoint can do.
Outcomes == {"ok", "non2xx", "throw"}

Items == [tier_id : Tiers, qty : 1..MaxQty]
ItemLists == UNION {[1..n -> Items] : n \in 0..MaxItems}
SingleItemLists == {<<>>} \cup {<<i>> : i \in Items}

VARIABLES
  ticket_tiers,   \* tier id -> [remaining_qty, initial_qty]
  sales,          \* sale id -> [status, tickets_data, approved_at, rejection_reason]
  webhook_logs,   \* log id  -> [present, sale_id, status, attempts, response_status, error_message]
  call,           \* invocation -> the mutationFn's position and locals
  hook,           \* invocation -> the fire-webhook request it triggered
  submission,     \* request -> the create-public-sale request and its answer
  public_sales    \* request -> the sales row create-public-sale inserted

vars == <<ticket_tiers, sales, webhook_logs, call, hook, submission, public_sales>>

\* ---------------------------------------------------------------- tables
NewSale(items) ==
  [status |-> "pending", tickets_data |-> items,
   approved_at |-> Null, rejection_reason |-> Null]

NoLog ==
  [present |-> FALSE, sale_id |-> Null, status |-> Null, attempts |-> 0,
   response_status |-> 0, error_message |-> ""]

ZeroQty == [t \in Tiers |-> 0]

IdleCall ==
  [pc |-> "idle", op |-> Null, role |-> Null, saleId |-> Null,
   fetched |-> FALSE, sale |-> NewSale(<<>>), idx |-> 1, result |-> Null,
   \* history of this invocation, read by the properties only
   seen |-> Null, deducted |-> ZeroQty, wrote |-> FALSE, invoked |-> FALSE,
   \* a direct rpc call: its arguments and the number its error message carries
   p_tier_id |-> Null, p_qty |-> 0, v_remaining |-> 0,
   \* a quantity edit in the inventory tab: the value the input showed and
   \* the value typed into it
   shown |-> 0, typed |-> 0]

IdleHook ==
  [pc |-> "idle", sale_id |-> Null, logEntry |-> 0, attempt |-> 1,
   success |-> FALSE, responseStatus |-> 0, errorMessage |-> "",
   response |-> 0,
   \* history of this request, read by the properties only
   posts |-> 0, got2xx |-> FALSE]

\* One request to create-public-sale.
Requests == {"R1"}

NoProfile == [id |-> Null, partner_id |-> <<>>, role |-> Null, is_active |-> FALSE]

NoBody ==
  [student_code |-> <<>>, buyer_name |-> <<>>, buyer_mobile |-> <<>>,
   transaction_id_last4 |-> <<>>, hasTickets |-> FALSE, tickets_data |-> <<>>,
   amount |-> 0, partner_id |-> Null]

NoRow ==
  [present |-> FALSE, buyer_name |-> <<>>, buyer_mobile |-> <<>>,
   transaction_id_last4 |-> <<>>, amount |-> 0, partner_id |-> Null,
   tickets_data |-> <<>>, status |-> Null]

IdleSubmission ==
  [pc |-> "idle", body |-> NoBody, partnerProfile |-> NoProfile,
   response |-> 0, error |-> ""]

Init ==
  /\ ticket_tiers = [t \in Tiers |->
                       [remaining_qty |-> InitialQty, initial_qty |-> InitialQty]]
  /\ \E l1 \in ItemLists, l2 \in SingleItemLists :
        sales = [s \in SaleIds |-> IF s = "S1" THEN NewSale(l1) ELSE NewSale(l2)]
  /\ webhook_logs = [d \in Calls |-> NoLog]
  /\ call = [p \in Calls |-> IdleCall]
  /\ hook = [p \in Calls |-> IdleHook]
  /\ submission = [r \in Requests |-> IdleSubmission]
  /\ public_sales = [r \in Requests |-> NoRow]

\* ------------------------------------------------- row-level security
has_role(role, wanted) == role = wanted

\* SELECT on sales: admins see every row, a partner its own rows.
CanSelectSale(role, s) == s \in SaleIds /\ role \in Roles

\* UPDATE on sales.  "Admins can update all sales" has USING only; "Students
\* can update their pending sales" has USING (owner AND status = 'pending')
\* and no WITH CHECK, so the same expression is checked on the new row.
\* "norows": no visible row matched, the update touches nothing and reports
\* no error.
UpdateSaleOutcome(role, s, newStatus) ==
  IF s \notin SaleIds THEN "norows"
  ELSE IF has_role(role, "admin") THEN "updated"
  ELSE IF sales[s].status # "pending" THEN "norows"
  ELSE IF newStatus = "pending" THEN "updated"
  ELSE "error"

\* ------------------------------------------------ decrement_ticket_qty
\* WHERE id = p_tier_id AND remaining_qty >= p_qty
SufficientUnchecked(remaining, p_qty) == TRUE

Sufficient(remaining, p_qty) == remaining >= p_qty

\* The exception the function raises, or "ok".
DecrementOutcome(role, p_tier_id, p_qty) ==
  IF ~has_role(role, "admin") THEN "Only admins can decrement ticket quantities"
  ELSE IF p_tier_id \in DOMAIN ticket_tiers
          /\ Sufficient(ticket_tiers[p_tier_id].remaining_qty, p_qty) THEN "ok"
  ELSE IF p_tier_id \notin DOMAIN ticket_tiers THEN "Ticket tier not found"
  ELSE "Insufficient inventory"

\* SET remaining_qty = remaining_qty - p_qty
Decremented(p_tier_id, p_qty) ==
  [ticket_tiers EXCEPT ![p_tier_id].remaining_qty = @ - p_qty]

\* A tier id that names no row of ticket_tiers.
NoTier == "T0"

\* The quantities a caller of the rpc endpoint can pass.
RpcQtys == (0 - 1)..(InitialQty + 1)

\* 'Insufficient inventory: only % tickets remaining', v_remaining
RemainingReportedAsAsked(p_tier_id, p_qty) == p_qty

RemainingReported(p_tier_id, p_qty) == ticket_tiers[p_tier_id].remaining_qty

\* supabase.rpc('decrement_ticket_qty', {p_tier_id, p_qty}) called on its own:
\* the whole function body, ending in the update or in one of its exceptions.
DirectRpc(p, role, p_tier_id, p_qty) ==
  /\ call[p].pc = "idle"
  /\ LET out == DecrementOutcome(role, p_tier_id, p_qty)
         c == [call[p] EXCEPT !.op = "rpc", !.role = role,
                              !.p_tier_id = p_tier_id, !.p_qty = p_qty]
     IN /\ ticket_tiers' = IF out = "ok" THEN Decremented(p_tier_id, p_qty)
                                           ELSE ticket_tiers
        /\ call' = [call EXCEPT ![p] =
             CASE out = "ok" ->
                    [c EXCEPT !.pc = "done", !.result = "success",
                              !.deducted[p_tier_id] = @ + p_qty]
               [] out = "Insufficient inventory" ->
                    [c EXCEPT !.pc = "failed", !.result = out,
                              !.v_remaining = RemainingReported(p_tier_id, p_qty)]
               [] OTHER -> [c EXCEPT !.pc = "failed", !.result = out]]
  /\ UNCHANGED <<sales, webhook_logs, hook, submission, public_sales>>

\* ------------------------------------------------------ useApproveSale
\* select * from sales where id = saleId, .single()
ApproveFetch(p, s, role) ==
  /\ call[p].pc = "idle"
  /\ IF CanSelectSale(role, s)
       THEN call' = [call EXCEPT ![p].pc = "loop", ![p].op = "approve",
                                 ![p].role = role, ![p].saleId = s,
                                 ![p].fetched = TRUE, ![p].sale = sales[s],
                                 ![p].seen = sales[s].status]
       ELSE call' = [call EXCEPT ![p].pc = "failed", ![p].op = "approve",
                                 ![p].role = role, ![p].saleId = s,
                                 ![p].result = "fetchError"]
  /\ UNCHANGED <<ticket_tiers, sales, webhook_logs, hook, submission, public_sales>>

\* if (rpcError) throw new Error(...); else the loop goes on.
AfterRpcSwallowed(c, ticket, out) ==
  IF out = "ok"
    THEN [c EXCEPT !.idx = @ + 1, !.deducted[ticket.tier_id] = @ + ticket.qty]
    ELSE [c EXCEPT !.idx = @ + 1, !.result = out]

AfterRpc(c, ticket, out) ==
  IF out = "ok"
    THEN [c EXCEPT !.idx = @ + 1, !.deducted[ticket.tier_id] = @ + ticket.qty]
    ELSE [c EXCEPT !.pc = "failed", !.result = out]

\* One turn of the loop over ticketsData: rpc('decrement_ticket_qty').
ApproveRpc(p) ==
  /\ call[p].pc = "loop"
  /\ call[p].idx <= Len(call[p].sale.tickets_data)
  /\ LET ticket == call[p].sale.tickets_data[call[p].idx]
         out == DecrementOutcome(call[p].role, ticket.tier_id, ticket.qty)
     IN /\ ticket_tiers' = IF out = "ok" THEN Decremented(ticket.tier_id, ticket.qty)
                                           ELSE ticket_tiers
        /\ call' = [call EXCEPT ![p] = AfterRpc(call[p], ticket, out)]
  /\ UNCHANGED <<sales, webhook_logs, hook, submission, public_sales>>

\* .update({ status: 'approved', approved_at: new Date().toISOString() })
ApprovedRowNoTimestamp(row) == [row EXCEPT !.status = "approved"]

ApprovedRow(row) == [row EXCEPT !.status = "approved", !.approved_at = "now"]

\* update sales set status = 'approved', approved_at = now where id = saleId
ApproveUpdate(p) ==
  /\ call[p].pc = "loop"
  /\ call[p].idx > Len(call[p].sale.tickets_data)
  /\ LET out == UpdateSaleOutcome(call[p].role, call[p].saleId, "approved")
     IN CASE out = "updated" ->
               /\ sales' = [sales EXCEPT ![call[p].saleId] = ApprovedRow(@)]
               /\ call' = [call EXCEPT ![p].pc = "invoke", ![p].wrote = TRUE]
          [] out = "norows" ->
               /\ call' = [call EXCEPT ![p].pc = "invoke"]
               /\ UNCHANGED sales
          [] out = "error" ->
               /\ call' = [call EXCEPT ![p].pc = "failed", ![p].result = "updateError"]
               /\ UNCHANGED sales
  /\ UNCHANGED <<ticket_tiers, webhook_logs, hook, submission, public_sales>>

\* supabase.functions.invoke('fire-webhook', {body: {sale_id}}) inside try/catch:
\* the request reaches the edge function, or the call throws and the catch
\* block logs it and the mutation returns the sale.
ApproveInvoke(p) ==
  /\ call[p].pc = "invoke"
  /\ \/ /\ call' = [call EXCEPT ![p].pc = "awaiting", ![p].invoked = TRUE]
        /\ hook' = [hook EXCEPT ![p] = [IdleHook EXCEPT !.pc = "fetch_sale",
                                          !.sale_id = call[p].saleId]]
     \/ /\ call' = [call EXCEPT ![p].pc = "done", ![p].invoked = TRUE,
                                ![p].result = "success"]
        /\ UNCHANGED hook
  /\ UNCHANGED <<ticket_tiers, sales, webhook_logs, submission, public_sales>>

\* What the mutation makes of the edge function's answer: invoke's result is
\* not read, and return sale follows.
InvokeResultChecked(response) ==
  IF response = 200 THEN "success" ELSE "webhookError"

InvokeResult(response) == "success"

\* return sale: the value the mutation resolves to is the row the first
\* query fetched.
ReturnedSale(c) == c.sale

\* The edge function has answered (any status): return sale.
ApproveReturn(p) ==
  /\ call[p].pc = "awaiting"
  /\ hook[p].pc = "responded"
  /\ LET r == InvokeResult(hook[p].response)
     IN call' = [call EXCEPT ![p].pc = IF r = "success" THEN "done" ELSE "failed",
                             ![p].result = r]
  /\ UNCHANGED <<ticket_tiers, sales, webhook_logs, hook, submission, public_sales>>

\* ------------------------------------------------------- useRejectSale
\* .update({ status: 'rejected', rejection_reason: reason })
RejectedRowResetsApproval(row, reason) ==
  [row EXCEPT !.status = "rejected", !.rejection_reason = reason,
              !.approved_at = Null]

RejectedRow(row, reason) ==
  [row EXCEPT !.status = "rejected", !.rejection_reason = reason]

\* update sales set status = 'rejected', rejection_reason = reason where id = saleId
Reject(p, s, reason, role) ==
  /\ call[p].pc = "idle"
  /\ LET out == UpdateSaleOutcome(role, s, "rejected")
         seen == IF s \in SaleIds THEN sales[s].status ELSE Null
         c == [call[p] EXCEPT !.op = "reject", !.role = role, !.saleId = s,
                              !.seen = seen]
     IN CASE out = "updated" ->
               /\ sales' = [sales EXCEPT ![s] = RejectedRow(@, reason)]
               /\ call' = [call EXCEPT ![p] = [c EXCEPT !.pc = "done",
                                                 !.wrote = TRUE, !.result = "success"]]
          [] out = "norows" ->
               /\ call' = [call EXCEPT ![p] = [c EXCEPT !.pc = "done",
                                                 !.result = "success"]]
               /\ UNCHANGED sales
          [] out = "error" ->
               /\ call' = [call EXCEPT ![p] = [c EXCEPT !.pc = "failed",
                                                 !.result = "updateError"]]
               /\ UNCHANGED sales
  /\ UNCHANGED <<ticket_tiers, webhook_logs, hook, submission, public_sales>>

\* ------------------------------------------------------- useUpdateSale
\* What a caller can pass: Partial<Sale> narrowed to the columns of this
\* model that a form edits, each given or left out.  hasTickets is the test
\* if (tickets_data), true for any array.
Payloads ==
  { u \in [hasTickets : BOOLEAN, tickets_data : SingleItemLists,
           hasStatus : BOOLEAN, status : {"pending", "approved", "rejected"}] :
      /\ u.hasTickets \/ u.hasStatus
      /\ ~u.hasTickets => u.tickets_data = <<>>
      /\ ~u.hasStatus => u.status = "pending" }

\* The row after update(updatePayload).
UpdatedRow(row, u) ==
  [row EXCEPT !.tickets_data = IF u.hasTickets THEN u.tickets_data ELSE @,
              !.status = IF u.hasStatus THEN u.status ELSE @]

\* update sales set <payload> where id = id, under the caller's policies.
\* An error is thrown to the caller; no row matched is not an error.
UpdateSale(s, role, u) ==
  /\ s \in SaleIds
  /\ LET out == UpdateSaleOutcome(role, s, UpdatedRow(sales[s], u).status)
     IN IF out = "updated"
          THEN sales' = [sales EXCEPT ![s] = UpdatedRow(@, u)]
          ELSE UNCHANGED sales
  /\ UNCHANGED <<ticket_tiers, webhook_logs, call, hook, submission, public_sales>>

\* --------------------------------------------------------- fire-webhook
MaxAttempts == 3

\* A request to the function that does not come from approveSale: any caller
\* of the functions endpoint, with any sale_id or none (Null).  Without
\* sale_id the handler answers 400; else it goes on to read the sale.
DirectInvoke(d, sale_id) ==
  /\ call[d].pc = "idle" /\ hook[d].pc = "idle"
  /\ call' = [call EXCEPT ![d].pc = "direct", ![d].op = "webhook",
                          ![d].saleId = sale_id]
  /\ hook' = [hook EXCEPT ![d] =
       IF sale_id = Null
         THEN [IdleHook EXCEPT !.pc = "responded", !.response = 400]
         ELSE [IdleHook EXCEPT !.pc = "fetch_sale", !.sale_id = sale_id]]
  /\ UNCHANGED <<ticket_tiers, sales, webhook_logs, submission, public_sales>>

\* What follows the reads of the sale and the profile: the insert of the log
\* row, ahead of the retry loop.
AfterSaleFetchedStraightToLoop == "deliver"

AfterSaleFetched == "insert_log"

\* select * from sales where id = sale_id, .single(); 404 when there is no
\* such sale.  (The profile read that follows changes nothing modelled.)
HookFetchSale(d) ==
  /\ hook[d].pc = "fetch_sale"
  /\ IF hook[d].sale_id \in SaleIds
       THEN hook' = [hook EXCEPT ![d].pc = AfterSaleFetched]
       ELSE hook' = [hook EXCEPT ![d].pc = "responded", ![d].response = 404]
  /\ UNCHANGED <<ticket_tiers, sales, webhook_logs, call, submission, public_sales>>

\* .insert({ sale_id: sale.id, status: 'pending', attempts: 1, ... })
NewLogRow(sale_id) ==
  [present |-> TRUE, sale_id |-> sale_id, status |-> "pending",
   attempts |-> 1, response_status |-> 0, error_message |-> ""]

\* insert into webhook_logs (sale_id, status 'pending', attempts 1)
HookInsertLog(d) ==
  /\ hook[d].pc = "insert_log"
  /\ webhook_logs' = [webhook_logs EXCEPT ![d] = NewLogRow(hook[d].sale_id)]
  /\ hook' = [hook EXCEPT ![d].pc = "deliver", ![d].logEntry = d]
  /\ UNCHANGED <<ticket_tiers, sales, call, submission, public_sales>>

\* The loop's exit test after attempt++.
LoopContinuesOffByOne(attempt) == attempt <= MaxAttempts + 1

LoopContinues(attempt) == attempt <= MaxAttempts

\* One turn of for (attempt = 1; attempt <= 3; attempt++): the POST, then
\* break on response.ok, else the wait and attempt++.
AttemptBody(h, outcome) ==
  LET posted == [h EXCEPT !.posts = @ + 1]
      next(g) == [g EXCEPT !.attempt = @ + 1,
                    !.pc = IF LoopContinues(g.attempt + 1) THEN "deliver"
                                                         ELSE "update_log"]
  IN CASE outcome = "ok" ->
            [posted EXCEPT !.responseStatus = 200, !.success = TRUE,
                           !.pc = "update_log"]
       [] outcome = "non2xx" -> next([posted EXCEPT !.responseStatus = 500])
       [] outcome = "throw" -> next([posted EXCEPT !.errorMessage = "error"])

HookAttempt(d, outcome) ==
  /\ hook[d].pc = "deliver"
  /\ hook' = [hook EXCEPT ![d] = [AttemptBody(hook[d], outcome) EXCEPT
                                    !.got2xx = @ \/ outcome = "ok"]]
  /\ UNCHANGED <<ticket_tiers, sales, webhook_logs, call, submission, public_sales>>

\* The update the function writes to its log row after the loop.
LogUpdateByLastError(row, h) ==
  [row EXCEPT !.status = IF h.errorMessage = "" THEN "success" ELSE "failed",
              !.response_status = h.responseStatus,
              !.error_message = h.errorMessage]

LogUpdate(row, h) ==
  [row EXCEPT !.status = IF h.success THEN "success" ELSE "failed",
              !.response_status = h.responseStatus,
              !.error_message = h.errorMessage]

\* if (logEntry) update webhook_logs ...; then the Response (200 or 500).
HookUpdateLog(d) ==
  /\ hook[d].pc = "update_log"
  /\ IF hook[d].logEntry # 0
       THEN webhook_logs' = [webhook_logs EXCEPT ![hook[d].logEntry] =
                               LogUpdate(@, hook[d])]
       ELSE UNCHANGED webhook_logs
  /\ hook' = [hook EXCEPT ![d].pc = "responded",
                          ![d].response = IF hook[d].success THEN 200 ELSE 500]
  /\ UNCHANGED <<ticket_tiers, sales, call, submission, public_sales>>

\* -------------------------------------------------- useUpdateTicketTier
\* What the admin can type into the Qty input (parseInt of a number input).
QtyInputs == (0 - 1)..(InitialQty + 1)

\* update ticket_tiers set [price], [remaining_qty] where id = id.  The
\* inventory tab calls it with the price or with the quantity; hasQty is
\* remaining_qty !== undefined.  Prices are not part of this model.
UpdateTicketTier(id, hasQty, remaining_qty) ==
  /\ IF hasQty
       THEN ticket_tiers' = [ticket_tiers EXCEPT ![id].remaining_qty = remaining_qty]
       ELSE UNCHANGED ticket_tiers
  /\ UNCHANGED <<sales, webhook_logs, call, hook, submission, public_sales>>

\* --------------------------------------------------- create-public-sale
\* Text is a sequence of one-character strings, so that the handler's
\* regular expressions, toUpperCase and trim act on it as they do in the
\* code.  A field the request leaves out is the empty text: !field is true
\* for undefined and for '' alike, and the handler answers before it reads
\* the field again.
Rep(ch, n) == [i \in 1..n |-> ch]

Digits == {"0", "1", "2", "3", "4", "5", "6", "7", "8", "9"}

\* /\d{n}/ without the anchors: n digits in a row anywhere in the text.
DigitsUnanchored(str, n) ==
  \E k \in 0..(Len(str) - n) : \A i \in 1..n : str[k + i] \in Digits

\* /^\d{n}$/.test(str)
IsDigits(str, n) == Len(str) = n /\ \A i \in 1..Len(str) : str[i] \in Digits

UpperChar(ch) == CASE ch = "p" -> "P" [] ch = "a" -> "A" [] OTHER -> ch

toUpperCase(str) == [i \in 1..Len(str) |-> UpperChar(str[i])]

RECURSIVE trimStart(_)
trimStart(str) ==
  IF str # <<>> /\ Head(str) = " " THEN trimStart(Tail(str)) ELSE str

RECURSIVE trimEnd(_)
trimEnd(str) ==
  IF str # <<>> /\ str[Len(str)] = " " THEN trimEnd(SubSeq(str, 1, Len(str) - 1))
                                       ELSE str

trim(str) == trimEnd(trimStart(str))

\* The profiles table: an active partner, a deactivated partner, and an admin
\* whose profile carries a partner_id too.
Profiles ==
  { [id |-> "u1", partner_id |-> <<"P", "1">>, role |-> "student", is_active |-> TRUE],
    [id |-> "u2", partner_id |-> <<"P", "2">>, role |-> "student", is_active |-> FALSE],
    [id |-> "u3", partner_id |-> <<"A", "1">>, role |-> "admin", is_active |-> TRUE] }

\* The request body's choices.
Codes == { <<>>, <<"P", "1">>, <<"p", "1">>, <<"P", "2">>, <<"A", "1">>, <<"X", "9">> }
Names == { <<>>, <<" ">>, <<"A">>, <<" ", "A", " ">> }
Mobiles == { <<>>, Rep("9", 9), Rep("9", 10), Rep("9", 11), Rep("9", 9) \o <<"x">> }
Refs == { <<>>, Rep("4", 3), Rep("4", 4), Rep("4", 5), Rep("4", 3) \o <<"x">> }
TicketLists ==
  { <<>>,
    <<[tier_id |-> "T1", price |-> 699, qty |-> 1]>>,
    <<[tier_id |-> "T1", price |-> 699, qty |-> 2],
      [tier_id |-> "T2", price |-> 999, qty |-> 1]>> }
\* 0 stands for a body without amount too: !body.amount is true for both.
Amounts == {0, 1, 699, 2397}
\* A partner_id the caller adds to the body (Null: none).
CallerIds == {Null, "u3"}

\* hasTickets: tickets_data is in the body (an empty array is).
Bodies ==
  { b \in [student_code : Codes, buyer_name : Names, buyer_mobile : Mobiles,
           transaction_id_last4 : Refs, hasTickets : BOOLEAN,
           tickets_data : TicketLists, amount : Amounts, partner_id : CallerIds] :
      ~b.hasTickets => b.tickets_data = <<>> }

\* The three checks before the first query: the 400 answer's error, or "ok".
ValidationError(body) ==
  IF \/ body.student_code = <<>> \/ body.buyer_name = <<>>
     \/ body.buyer_mobile = <<>> \/ body.transaction_id_last4 = <<>>
     \/ ~body.hasTickets \/ body.amount = 0
    THEN "Missing required fields"
  ELSE IF ~IsDigits(body.buyer_mobile, 10) THEN "Invalid mobile number"
  ELSE IF ~IsDigits(body.transaction_id_last4, 4) THEN "Invalid Transaction ID"
  ELSE "ok"

\* const body = await req.json() (any body), then the validation.
PublicReceive(r) ==
  /\ submission[r].pc = "idle"
  /\ \E body \in Bodies :
       LET err == ValidationError(body)
       IN submission' = [submission EXCEPT ![r] =
            IF err = "ok"
              THEN [@ EXCEPT !.pc = "lookup", !.body = body]
              ELSE [@ EXCEPT !.pc = "responded", !.body = body,
                             !.response = 400, !.error = err]]
  /\ UNCHANGED <<ticket_tiers, sales, webhook_logs, call, hook, public_sales>>

\* .eq('partner_id', body.student_code.toUpperCase()).eq('role', 'student')
MatchingProfiles(student_code) ==
  { pr \in Profiles : pr.partner_id = toUpperCase(student_code) /\ pr.role = "student" }

\* if (!partnerProfile.is_active) return 403
PartnerUsableAlways(partnerProfile) == TRUE

PartnerUsable(partnerProfile) == partnerProfile.is_active

\* The profile query with .single() (an error unless exactly one row), then
\* the 404 and 403 answers.
PublicLookup(r) ==
  /\ submission[r].pc = "lookup"
  /\ LET found == MatchingProfiles(submission[r].body.student_code)
     IN IF Cardinality(found) # 1
          THEN submission' = [submission EXCEPT ![r].pc = "responded",
                                ![r].response = 404, ![r].error = "Partner not found"]
          ELSE LET partnerProfile == CHOOSE pr \in found : TRUE
               IN IF PartnerUsable(partnerProfile)
                    THEN submission' = [submission EXCEPT ![r].pc = "insert",
                                          ![r].partnerProfile = partnerProfile]
                    ELSE submission' = [submission EXCEPT ![r].pc = "responded",
                                          ![r].partnerProfile = partnerProfile,
                                          ![r].response = 403,
                                          ![r].error = "no longer active"]
  /\ UNCHANGED <<ticket_tiers, sales, webhook_logs, call, hook, public_sales>>

\* The object given to insert(), were the body spread into it.
InsertedRowSpread(body, partnerProfile) ==
  [present |-> TRUE, buyer_name |-> trim(body.buyer_name),
   buyer_mobile |-> body.buyer_mobile,
   transaction_id_last4 |-> body.transaction_id_last4, amount |-> body.amount,
   partner_id |-> IF body.partner_id # Null THEN body.partner_id
                                            ELSE partnerProfile.id,
   tickets_data |-> body.tickets_data, status |-> "pending"]

\* The object given to insert().
InsertedRow(body, partnerProfile) ==
  [present |-> TRUE, buyer_name |-> trim(body.buyer_name),
   buyer_mobile |-> body.buyer_mobile,
   transaction_id_last4 |-> body.transaction_id_last4, amount |-> body.amount,
   partner_id |-> partnerProfile.id,
   tickets_data |-> body.tickets_data, status |-> "pending"]

\* insert into sales ... .select().single(): the row and the 200 answer, or
\* insertError (the datastore refused or failed) and the 500 answer.
PublicInsert(r) ==
  /\ submission[r].pc = "insert"
  /\ \/ /\ public_sales' = [public_sales EXCEPT ![r] =
              InsertedRow(submission[r].body, submission[r].partnerProfile)]
        /\ submission' = [submission EXCEPT ![r].pc = "responded", ![r].response = 200]
     \/ /\ submission' = [submission EXCEPT ![r].pc = "responded", ![r].response = 500,
                             ![r].error = "Failed to submit sale"]
        /\ UNCHANGED public_sales
  /\ UNCHANGED <<ticket_tiers, sales, webhook_logs, call, hook>>

\* ------------------------------------------------ inventory tab, Qty input
\* By how much the admin changes the number the input shows (0: the field is
\* left as it is, and onBlur still sends it).
Deltas == (0 - 1)..1

\* The tab renders the tiers its query fetched: defaultValue={tier.remaining_qty}.
InventoryShow(p, id) ==
  /\ call[p].pc = "idle"
  /\ call' = [call EXCEPT ![p].pc = "shown", ![p].op = "edit", ![p].role = "admin",
                          ![p].p_tier_id = id,
                          ![p].shown = ticket_tiers[id].remaining_qty]
  /\ UNCHANGED <<ticket_tiers, sales, webhook_logs, hook, submission, public_sales>>

\* onBlur: updateTier.mutate({ id, remaining_qty: parseInt(e.target.value) }),
\* the update of useUpdateTicketTier with the typed number.
InventoryBlur(p, delta) ==
  /\ call[p].pc = "shown"
  /\ LET remaining_qty == call[p].shown + delta
     IN /\ ticket_tiers' = [ticket_tiers EXCEPT
                              ![call[p].p_tier_id].remaining_qty = remaining_qty]
        /\ call' = [call EXCEPT ![p].pc = "done", ![p].typed = remaining_qty,
                                ![p].result = "success"]
  /\ UNCHANGED <<sales, webhook_logs, hook, submission, public_sales>>

\* ------------------------------------------------------- specifications
Workflow(calls, roles, reasons) ==
  \/ \E p \in calls, s \in SaleIds \cup {NoSale}, role \in roles : ApproveFetch(p, s, role)
  \/ \E p \in calls : ApproveRpc(p)
  \/ \E p \in calls : ApproveUpdate(p)
  \/ \E p \in calls : ApproveInvoke(p)
  \/ \E p \in calls : ApproveReturn(p)
  \/ \E p \in calls, s \in SaleIds \cup {NoSale}, reason \in reasons, role \in roles :
        Reject(p, s, reason, role)
  \/ \E d \in calls : HookFetchSale(d)
  \/ \E d \in calls : HookInsertLog(d)
  \/ \E d \in calls, outcome \in Outcomes : HookAttempt(d, outcome)
  \/ \E d \in calls : HookUpdateLog(d)

\* The admin dashboard: concurrent approvals and rejections by admins.
Next == Workflow(Calls, {"admin"}, {"duplicate payment"})

Spec == Init /\ [][Next]_vars

\* One admin invocation at a time, interleaved with the inventory tab's
\* direct quantity edits.
NextEdit ==
  \/ Workflow({1}, {"admin"}, {"duplicate payment"})
  \/ \E id \in Tiers, hasQty \in BOOLEAN, q \in QtyInputs : UpdateTicketTier(id, hasQty, q)

SpecEdit == Init /\ [][NextEdit]_vars

\* One approval or rejection and the fire-webhook request it triggers.
NextHook == Workflow({1}, {"admin"}, {"duplicate payment"})

SpecHook == Init /\ [][NextHook]_vars

\* The edge function runs to its Response once it has inserted the log row:
\* every POST ends (with a 2xx, a non-2xx or an error) and the wait between
\* attempts is finite, so the loop's turns and the update of the log row
\* are taken.
FairHook ==
  /\ SpecHook
  /\ \A d \in Calls :
       /\ WF_vars(\E outcome \in Outcomes : HookAttempt(d, outcome))
       /\ WF_vars(HookUpdateLog(d))

\* One admin invocation, the reject dialog's textarea left empty or filled.
NextReasons == Workflow({1}, {"admin"}, Reasons)

SpecReasons == Init /\ [][NextReasons]_vars

\* One admin invocation of approve or reject, interleaved with sale updates
\* by the admin or by the partner owning the sales.
NextUpdate ==
  \/ Workflow({1}, {"admin"}, {"duplicate payment"})
  \/ \E s \in SaleIds, role \in Roles, u \in Payloads : UpdateSale(s, role, u)

SpecUpdate == Init /\ [][NextUpdate]_vars

\* One approval or rejection (invocation 1) beside one quantity edit in the
\* inventory tab of another admin session (invocation 2).
NextStock ==
  \/ Workflow({1}, {"admin"}, {"duplicate payment"})
  \/ \E id \in Tiers : InventoryShow(2, id)
  \/ \E delta \in Deltas : InventoryBlur(2, delta)

SpecStock == Init /\ [][NextStock]_vars

\* One admin invocation of approve or reject (invocation 1) and one request
\* sent to fire-webhook directly (slot 2).
NextDirect ==
  \/ Workflow({1}, {"admin"}, {"duplicate payment"})
  \/ \E sale_id \in SaleIds \cup {NoSale, Null} : DirectInvoke(2, sale_id)
  \/ HookFetchSale(2)
  \/ HookInsertLog(2)
  \/ \E outcome \in Outcomes : HookAttempt(2, outcome)
  \/ HookUpdateLog(2)

SpecDirect == Init /\ [][NextDirect]_vars

\* An admin session (invocation 1) and the session of the partner owning the
\* sales (invocation 2), calling the same mutations.
NextActors ==
  \/ Workflow({1}, {"admin"}, {"duplicate payment"})
  \/ Workflow({2}, {"partner"}, {"duplicate payment"})

SpecActors == Init /\ [][NextActors]_vars

\* The public referral form: one request to create-public-sale, any body.
\* The two seeded sales play no part in it and carry no line items here.
InitPublic == Init /\ \A s \in SaleIds : sales[s].tickets_data = <<>>

NextPublic ==
  \/ \E r \in Requests : PublicReceive(r)
  \/ \E r \in Requests : PublicLookup(r)
  \/ \E r \in Requests : PublicInsert(r)

SpecPublic == InitPublic /\ [][NextPublic]_vars

\* decrement_ticket_qty called directly, by an admin or a partner session,
\* for any tier id and quantity.  The sales play no
\* part in it.
NextRpc ==
  \E p \in Calls, role \in Roles, p_tier_id \in Tiers \cup {NoTier}, p_qty \in RpcQtys :
    DirectRpc(p, role, p_tier_id, p_qty)

SpecRpc == InitPublic /\ [][NextRpc]_vars

\* A body that passes every check of create-public-sale, with the given line
\* items (priced as the tiers are).
BodyWith(items) ==
  [student_code |-> <<"P", "1">>, buyer_name |-> <<"A">>,
   buyer_mobile |-> Rep("9", 10), transaction_id_last4 |-> Rep("4", 4),
   hasTickets |-> TRUE,
   tickets_data |-> [i \in 1..Len(items) |->
                       [tier_id |-> items[i].tier_id,
                        price |-> IF items[i].tier_id = "T1" THEN 699 ELSE 999,
                        qty |-> items[i].qty]],
   amount |-> 699, partner_id |-> Null]

\* The one-item sales create-public-sale lets in, over quantities from -1 up:
\* those whose request its validation answers with "ok".
SubmittedLists ==
  { l \in { <<i>> : i \in [tier_id : Tiers, qty : (0 - 1)..MaxQty] } :
      ValidationError(BodyWith(l)) = "ok" }

\* The sales table holding two pending sales that came in through
\* create-public-sale.
InitSubmitted ==
  /\ ticket_tiers = [t \in Tiers |->
                       [remaining_qty |-> InitialQty, initial_qty |-> InitialQty]]
  /\ \E l1 \in SubmittedLists, l2 \in SubmittedLists :
        sales = [s \in SaleIds |-> IF s = "S1" THEN NewSale(l1) ELSE NewSale(l2)]
  /\ webhook_logs = [d \in Calls |-> NoLog]
  /\ call = [p \in Calls |-> IdleCall]
  /\ hook = [p \in Calls |-> IdleHook]
  /\ submission = [r \in Requests |-> IdleSubmission]
  /\ public_sales = [r \in Requests |-> NoRow]

\* One admin invocation of approve or reject on such sales.
SpecSubmitted == InitSubmitted /\ [][NextHook]_vars

\* ------------------------------------------------------------ properties
RECURSIVE SumQty(_, _)
\* Sum of the quantities of the line items of `items` that name tier t.
SumQty(items, t) ==
  IF items = <<>> THEN 0
  ELSE (IF Head(items).tier_id = t THEN Head(items).qty ELSE 0)
       + SumQty(Tail(items), t)

RECURSIVE TotalDeducted(_, _)
\* Units the decrements of the invocations ps have taken from tier t.
TotalDeducted(ps, t) ==
  IF ps = {} THEN 0
  ELSE LET p == CHOOSE x \in ps : TRUE
       IN call[p].deducted[t] + TotalDeducted(ps \ {p}, t)

Finished(p) == call[p].pc \in {"done", "failed"}
PastUpdate(p) == call[p].pc \in {"invoke", "awaiting", "done"}
OtherWriter(p) ==
  \E q \in Calls \ {p} : call[q].saleId = call[p].saleId /\ call[q].wrote

\* C1: no oversell.  Under concurrent approvals the successful decrements of
\* a tier never take more than the tier held: remaining_qty is never
\* negative, and it is exactly the seeded quantity less the units of the
\* decrements that succeeded (no decrement is lost or applied twice), so the
\* successes are those a serial order of the calls allows.
C1_NoOversell ==
  \A t \in Tiers :
    /\ ticket_tiers[t].remaining_qty >= 0
    /\ ticket_tiers[t].remaining_qty
         = ticket_tiers[t].initial_qty - TotalDeducted(Calls, t)

\* Two approvals of different sales in flight, wanting more of T1 than it
\* held: one took the last unit, the other was refused.
C1_Witness ==
  \E p, q \in Calls :
    /\ p # q /\ call[p].saleId # call[q].saleId
    /\ call[p].pc = "loop" /\ call[p].deducted["T1"] > 0
    /\ call[q].result = "Insufficient inventory"
    /\ call[q].sale.tickets_data[call[q].idx].tier_id = "T1"
    /\ ticket_tiers["T1"].remaining_qty = 0

\* C2: single transition.  Of two invocations (approve/approve or
\* approve/reject) that both found the same sale pending, at most one changes
\* the sale and reports success.
C2_SingleTransition ==
  \A p, q \in Calls :
    (/\ p # q
     /\ call[p].saleId \in SaleIds /\ call[p].saleId = call[q].saleId
     /\ call[p].seen = "pending" /\ call[q].seen = "pending")
    => ~(call[p].wrote /\ call[q].wrote)
       /\ ~(call[p].result = "success" /\ call[q].result = "success")

\* C3: idempotent re-approval.  An approveSale that finds the sale already
\* approved leaves every tier's remaining_qty alone: it decrements nothing.
\* (Its result is not AlreadyProcessed either: the mutation has no such
\* result and reports success.)
C3_IdempotentReapproval ==
  \A p \in Calls :
    (call[p].op = "approve" /\ call[p].seen = "approved")
    => call[p].deducted = ZeroQty

\* C4: terminal states.  A sale whose status is approved or rejected keeps
\* that status in every step.
C4_TerminalStates ==
  [][\A s \in SaleIds :
       sales[s].status # "pending" => sales'[s].status = sales[s].status]_vars

\* C5: all-or-nothing.  When an approveSale invocation has ended, it has
\* either decremented every line item and approved the sale, or decremented
\* nothing.
C5_AllOrNothing ==
  \A p \in Calls :
    (call[p].op = "approve" /\ Finished(p))
    => \/ call[p].deducted = ZeroQty
       \/ /\ \A t \in Tiers :
               call[p].deducted[t] = SumQty(call[p].sale.tickets_data, t)
          /\ call[p].wrote

\* C6: abort on InsufficientInventory.  An approveSale whose decrement was
\* refused stops there: it never writes the sale's status or approved_at and
\* never invokes the webhook function; unless another invocation wrote the
\* sale, it is still pending with approved_at unset.
C6_AbortOnInsufficient ==
  \A p \in Calls :
    call[p].result = "Insufficient inventory"
    => /\ call[p].pc = "failed"
       /\ ~call[p].wrote /\ ~call[p].invoked
       /\ hook[p].pc = "idle" /\ ~webhook_logs[p].present
       /\ ~OtherWriter(p)
            => /\ sales[call[p].saleId].status = "pending"
               /\ sales[call[p].saleId].approved_at = Null

\* An approval refused for lack of inventory, alone on its sale.
C6_Witness ==
  \E p \in Calls :
    /\ call[p].result = "Insufficient inventory"
    /\ ~OtherWriter(p)
    /\ sales[call[p].saleId].status = "pending"

\* C7: end-to-end approval.  An approveSale that got past its decrements has
\* taken from each tier exactly the sum of the sale's line-item quantities
\* for it and has written the sale; when it ran alone, the tier holds its
\* seeded quantity less that sum, the sale is approved and approved_at is set.
C7_EndToEnd ==
  \A p \in Calls :
    (call[p].op = "approve" /\ PastUpdate(p))
    => /\ \A t \in Tiers :
            call[p].deducted[t] = SumQty(sales[call[p].saleId].tickets_data, t)
       /\ call[p].wrote
       /\ (\A q \in Calls \ {p} : call[q].pc = "idle")
            => /\ sales[call[p].saleId].status = "approved"
               /\ sales[call[p].saleId].approved_at # Null
               /\ \A t \in Tiers :
                    ticket_tiers[t].remaining_qty
                      = ticket_tiers[t].initial_qty
                          - SumQty(sales[call[p].saleId].tickets_data, t)

\* A lone approval of a sale with one unit of T1: the tier went from its
\* seeded quantity to one less, the sale is approved.
C7_Witness ==
  \E p \in Calls :
    /\ call[p].op = "approve" /\ call[p].pc = "done"
    /\ \A q \in Calls \ {p} : call[q].pc = "idle"
    /\ SumQty(sales[call[p].saleId].tickets_data, "T1") = 1
    /\ ticket_tiers["T1"].remaining_qty = InitialQty - 1
    /\ sales[call[p].saleId].status = "approved"

\* C8: 0 <= remaining_qty <= initial_qty for every tier, in every state.
C8_QtyWithinBounds ==
  \A t \in Tiers :
    /\ 0 <= ticket_tiers[t].remaining_qty
    /\ ticket_tiers[t].remaining_qty <= ticket_tiers[t].initial_qty

\* C9: webhook isolation.  From the moment approveSale has written the
\* status, no step of its webhook phase (the invoke, the edge function's
\* steps, the return) changes a sale or a tier, and the phase can only end
\* with approveSale reporting success, whatever the endpoint did.
C9_WebhookIsolated ==
  [][\A p \in Calls :
       (/\ call[p].pc \in {"invoke", "awaiting"}
        /\ (call'[p] # call[p] \/ hook'[p] # hook[p]))
       => /\ sales' = sales /\ ticket_tiers' = ticket_tiers
          /\ call'[p].pc \in {"awaiting", "done"}
          /\ call'[p].pc = "done" => call'[p].result = "success"]_vars

\* approveSale reported success although the delivery exhausted its retries;
\* the sale is approved and the inventory decremented.
C9_Witness ==
  \E p \in Calls :
    /\ call[p].pc = "done" /\ call[p].op = "approve" /\ call[p].result = "success"
    /\ hook[p].response = 500 /\ hook[p].posts = MaxAttempts
    /\ webhook_logs[p].status = "failed"
    /\ sales[call[p].saleId].status = "approved"
    /\ call[p].deducted # ZeroQty

\* C10: retry accounting.  A log row in a terminal status records as many
\* attempts as POSTs were made (3 when the endpoint failed twice, then
\* answered 2xx).
C10_AttemptsLogged ==
  \A d \in Calls :
    (webhook_logs[d].present /\ webhook_logs[d].status \in {"success", "failed"})
    => webhook_logs[d].attempts = hook[d].posts

\* C11: bounded retries.  A POST to the endpoint is made only by a dispatch
\* that has made fewer than 3 POSTs and has received no 2xx answer yet: there
\* are at most 3 attempts, the first 2xx ends the loop, and a failure is
\* followed by a further attempt only while fewer than 3 were made.
C11_BoundedRetries ==
  [][\A d \in Calls :
       hook'[d].posts # hook[d].posts
       => /\ hook'[d].posts = hook[d].posts + 1
          /\ hook[d].posts < MaxAttempts
          /\ ~hook[d].got2xx]_vars

\* A dispatch that failed, was retried and stopped at the first 2xx answer,
\* on its second attempt.
C11_Witness ==
  \E d \in Calls :
    /\ hook[d].pc = "responded" /\ hook[d].got2xx
    /\ hook[d].posts = 2 /\ hook[d].errorMessage = "error"

C13_AdminOnly ==
  \A p \in Calls :
    (call[p].op = "approve" /\ call[p].role # "admin" /\ call[p].saleId \in SaleIds)
    => /\ call[p].deducted = ZeroQty /\ ~call[p].wrote
       /\ call[p].pc \in {"loop", "failed"} /\ ~call[p].invoked
       /\ call[p].pc = "failed"
            => call[p].result \in {"Only admins can decrement ticket quantities",
                                   "updateError"}

\* C14: rejection frame.  The step of a rejectSale leaves every tier, every
\* webhook log, every webhook request and every other sale as they were, and
\* changes of its own sale at most the status and the rejection reason.
C14_RejectFrame ==
  [][\A p \in Calls :
       (call[p].pc = "idle" /\ call'[p].op = "reject")
       => /\ ticket_tiers' = ticket_tiers
          /\ webhook_logs' = webhook_logs /\ hook' = hook
          /\ ~call'[p].invoked /\ call'[p].deducted = ZeroQty
          /\ \A s \in SaleIds :
               /\ s # call'[p].saleId => sales'[s] = sales[s]
               /\ sales'[s].tickets_data = sales[s].tickets_data
               /\ sales'[s].approved_at = sales[s].approved_at]_vars

\* A rejection that wrote its sale, with one unit of the other sale taken
\* from T1 by an approval and a webhook log on record: both are as the
\* approval left them.
C14_Witness ==
  \E p, q \in Calls :
    /\ call[p].op = "reject" /\ call[p].wrote
    /\ sales[call[p].saleId].status = "rejected"
    /\ sales[call[p].saleId].rejection_reason = "duplicate payment"
    /\ call[q].op = "approve" /\ call[q].pc = "done" /\ call[q].saleId # call[p].saleId
    /\ webhook_logs[q].present
    /\ ticket_tiers["T1"].remaining_qty = InitialQty - call[q].deducted["T1"]
    /\ call[q].deducted["T1"] = 1

\* C15: rejection reason.  Every rejected sale carries a non-empty
\* rejection_reason: a rejectSale with an empty reason fails and leaves the
\* sale as it was.
C15_ReasonRequired ==
  \A s \in SaleIds :
    sales[s].status = "rejected" => sales[s].rejection_reason \notin {Null, ""}

\* The student profiles whose partner code is the given one, letter case
\* aside.
PartnersCoded(code) ==
  { pr \in Profiles : pr.role = "student" /\ pr.partner_id = toUpperCase(code) }

\* The request got past the three validation answers.
Validated(r) ==
  submission[r].pc \in {"lookup", "insert"}
  \/ (submission[r].pc = "responded" /\ submission[r].response # 400)

\* C16: partner resolution.  create-public-sale inserts a row only when the
\* partner code names an existing, active profile with the partner role; a
\* validated request with an unknown code is answered 404 (partner not
\* found), one with a deactivated partner's code 403 (partner inactive), and
\* neither creates a row.
C16_PartnerResolved ==
  \A r \in Requests :
    LET ps == PartnersCoded(submission[r].body.student_code)
    IN /\ public_sales[r].present => \E pr \in ps : pr.is_active
       /\ (Validated(r) /\ submission[r].pc = "responded" /\ ps = {})
            => submission[r].response = 404 /\ ~public_sales[r].present
       /\ (Validated(r) /\ submission[r].pc = "responded"
            /\ \E pr \in ps : ~pr.is_active)
            => submission[r].response = 403 /\ ~public_sales[r].present

\* A well-formed request with the code of the deactivated partner, answered
\* 403 without a row.
C16_Witness ==
  \E r \in Requests :
    /\ submission[r].body.student_code = <<"P", "2">>
    /\ submission[r].response = 403 /\ ~public_sales[r].present

AllDigits(str, n) == Len(str) = n /\ \A i \in DOMAIN str : str[i] \in Digits

FieldMissing(b) ==
  \/ b.student_code = <<>> \/ b.buyer_name = <<>> \/ b.buyer_mobile = <<>>
  \/ b.transaction_id_last4 = <<>> \/ ~b.hasTickets \/ b.amount = 0

\* C17: validation before persistence.  A request whose mobile is not exactly
\* 10 digits, whose transaction reference is not exactly 4 digits or that
\* lacks a required field is answered 400 and creates no row; a request
\* with every field present, a 10-digit mobile and a 4-digit reference gets
\* past these checks.
C17_ValidatedBeforeInsert ==
  \A r \in Requests :
    LET b == submission[r].body
        wellFormed == /\ ~FieldMissing(b)
                      /\ AllDigits(b.buyer_mobile, 10)
                      /\ AllDigits(b.transaction_id_last4, 4)
    IN /\ public_sales[r].present => wellFormed
       /\ (submission[r].pc # "idle" /\ ~wellFormed)
            => /\ submission[r].pc = "responded" /\ submission[r].response = 400
               /\ ~public_sales[r].present
       /\ (submission[r].pc # "idle" /\ wellFormed) => Validated(r)

\* A request complete but for an 11-digit mobile, answered 400 without a row.
C17_Witness ==
  \E r \in Requests :
    /\ ~FieldMissing(submission[r].body)
    /\ submission[r].body.buyer_mobile = Rep("9", 11)
    /\ submission[r].response = 400
    /\ submission[r].error = "Invalid mobile number"
    /\ ~public_sales[r].present

\* C18: non-empty line items.  Every row create-public-sale inserted has at
\* least one line item (a request with an empty list is refused).
C18_NonEmptyItems ==
  \A r \in Requests :
    public_sales[r].present => Len(public_sales[r].tickets_data) >= 1

RECURSIVE LineTotal(_)
\* Sum of price * qty over the line items.
LineTotal(items) ==
  IF items = <<>> THEN 0
  ELSE Head(items).price * Head(items).qty + LineTotal(Tail(items))

\* C19: amount integrity.  The amount stored with a row that has line items
\* is the sum of price * qty over them (a request stating another amount is
\* refused, or its amount recomputed).
C19_AmountIsLineTotal ==
  \A r \in Requests :
    (public_sales[r].present /\ public_sales[r].tickets_data # <<>>)
    => public_sales[r].amount = LineTotal(public_sales[r].tickets_data)

\* C20: created pending, for the resolved partner.  Every row inserted by
\* create-public-sale has status pending and the id of the profile its
\* partner code resolved to, whatever partner id the caller put in the body.
C20_PendingForResolvedPartner ==
  \A r \in Requests :
    public_sales[r].present
    => /\ public_sales[r].status = "pending"
       /\ \E pr \in PartnersCoded(submission[r].body.student_code) :
            public_sales[r].partner_id = pr.id

\* A row created from a lower-case code whose body also named the admin's
\* profile id: it belongs to the partner the code resolved to.
C20_Witness ==
  \E r \in Requests :
    /\ public_sales[r].present /\ public_sales[r].status = "pending"
    /\ submission[r].body.student_code = <<"p", "1">>
    /\ submission[r].body.partner_id = "u3"
    /\ public_sales[r].partner_id = "u1"

\* C21: finalized snapshot.  The sale an approveSale returns with its success
\* has status approved and approved_at set.
C21_ReturnsFinalized ==
  \A p \in Calls :
    (call[p].op = "approve" /\ call[p].pc = "done" /\ call[p].result = "success")
    => /\ ReturnedSale(call[p]).status = "approved"
       /\ ReturnedSale(call[p]).approved_at # Null

\* C22: terminal metadata.  approved_at is set only on approved sales and
\* rejection_reason only on rejected sales.
C22_MetadataMatchesStatus ==
  \A s \in SaleIds :
    /\ sales[s].approved_at # Null => sales[s].status = "approved"
    /\ sales[s].rejection_reason # Null => sales[s].status = "rejected"

\* C23: line items frozen.  No step changes the tickets_data of a sale whose
\* status is approved or rejected.
C23_TicketsFrozen ==
  [][\A s \in SaleIds :
       sales[s].status # "pending"
       => sales'[s].tickets_data = sales[s].tickets_data]_vars

\* C24: failed decrement.  A decrement_ticket_qty call by an admin for a tier
\* that holds less than the quantity asked changes no tier and raises
\* Insufficient inventory with the tier's remaining_qty in its message; a
\* call for a tier id without a row raises Ticket tier not found.
C24_FailedDecrement ==
  [][\A p \in Calls :
       (call[p].pc = "idle" /\ call'[p].op = "rpc" /\ call'[p].role = "admin")
       => LET t == call'[p].p_tier_id
          IN /\ t \notin Tiers
                  => /\ call'[p].result = "Ticket tier not found"
                     /\ ticket_tiers' = ticket_tiers
             /\ (t \in Tiers /\ ticket_tiers[t].remaining_qty < call'[p].p_qty)
                  => /\ call'[p].result = "Insufficient inventory"
                     /\ call'[p].v_remaining = ticket_tiers[t].remaining_qty
                     /\ ticket_tiers' = ticket_tiers]_vars

\* A call for 2 units of T1 refused with 1 in its message, after another call
\* took one of the tier's units.
C24_Witness ==
  \E p \in Calls :
    /\ call[p].op = "rpc" /\ call[p].result = "Insufficient inventory"
    /\ call[p].p_tier_id = "T1" /\ call[p].p_qty = 2 /\ call[p].v_remaining = 1
    /\ ticket_tiers["T1"].remaining_qty = 1

\* The change of tier t the quantity edits made as their admins meant them:
\* typed less shown, for the edits that were sent.
Restocked(t) ==
  LET e == {p \in Calls : call[p].op = "edit" /\ call[p].pc = "done"
                          /\ call[p].p_tier_id = t}
  IN IF e = {} THEN 0
     ELSE LET p == CHOOSE x \in e : TRUE IN call[p].typed - call[p].shown

\* C25: no lost decrement.  With an admin quantity edit interleaved with an
\* approval, every successful decrement stays in the tier's count:
\* remaining_qty is the seeded quantity, less the units the decrements took,
\* plus the change the edit made to the number it showed.
C25_NoLostDecrement ==
  \A t \in Tiers :
    ticket_tiers[t].remaining_qty
      = ticket_tiers[t].initial_qty - TotalDeducted(Calls, t) + Restocked(t)

\* C26: ordering.  In one approveSale, a decrement is made only before the
\* sale has been written and before the webhook function has been invoked,
\* the sale is written only before the invoke, and the invoke is made only
\* after this invocation's update has written the sale.
C26_Ordering ==
  [][\A p \in Calls :
       call'[p].op = "approve"
       => /\ call'[p].deducted # call[p].deducted
               => ~call[p].wrote /\ ~call[p].invoked
          /\ (call'[p].wrote /\ ~call[p].wrote) => ~call[p].invoked
          /\ (call'[p].invoked /\ ~call[p].invoked) => call[p].wrote]_vars

RECURSIVE ApprovedQty(_, _)
\* Sum over the approved sales among ss of their line-item quantities for t.
ApprovedQty(ss, t) ==
  IF ss = {} THEN 0
  ELSE LET s == CHOOSE x \in ss : TRUE
       IN (IF sales[s].status = "approved" THEN SumQty(sales[s].tickets_data, t)
                                          ELSE 0)
          + ApprovedQty(ss \ {s}, t)

\* C28: inventory conservation.  With no invocation under way, each tier's
\* initial_qty - remaining_qty is the sum of the line-item quantities for it
\* over the approved sales.
C28_Conservation ==
  (\A p \in Calls : call[p].pc = "idle" \/ Finished(p))
  => \A t \in Tiers :
       ticket_tiers[t].initial_qty - ticket_tiers[t].remaining_qty
         = ApprovedQty(SaleIds, t)

\* C29: dispatch for approved sales only.  A step in which fire-webhook
\* inserts its log row or makes a POST is taken only for a sale whose status
\* is approved.
C29_OnlyApprovedDispatched ==
  [][\A d \in Calls :
       (\/ hook'[d].posts > hook[d].posts
        \/ (webhook_logs'[d].present /\ ~webhook_logs[d].present))
       => /\ hook[d].sale_id \in SaleIds
          /\ sales[hook[d].sale_id].status = "approved"]_vars

\* C30: approvals never add stock.  No step of an approveSale leaves a tier
\* with a larger remaining_qty than it had, whatever line-item quantity the
\* submission let into the sale.
C30_ApprovalNeverAdds ==
  [][\A t \in Tiers :
       ticket_tiers'[t].remaining_qty <= ticket_tiers[t].remaining_qty]_vars
====
